---- MODULE Spec2Model ----
(***************************************************************************)
(* Model of the Flask backend of the mental-health trends dashboard        *)
(* (src/app.py): the handler get_dashboard of GET /api/dashboard.           *)
(*                                                                         *)
(* A text is a sequence of one-character strings, so that strptime and     *)
(* strftime are modelled by what they do to the characters.  A date is its *)
(* proleptic Gregorian ordinal (datetime.toordinal).  A real number is a   *)
(* fixed-point integer in units of 1/Scale.  The process-wide generator of *)
(* the random module is one shared variable, rng, that every draw          *)
(* advances.                                                               *)
(*                                                                         *)
(* A request is handled in steps: each of the two reads of the clock, the  *)
(* parsing, each of the three loops that draw from the generator, and the  *)
(* return.  Between the steps midnight may pass and, when two requests are *)
(* in flight, the other request may run.                                   *)
(***************************************************************************)
EXTENDS Integers, Sequences, FiniteSets, TLC

(***************************************************************************)
(* Texts                                                                   *)
(***************************************************************************)
Digits == <<"0", "1", "2", "3", "4", "5", "6", "7", "8", "9">>

IsDigit(c) == \E k \in 1..10 : Digits[k] = c

DigitVal(c) == (CHOOSE k \in 1..10 : Digits[k] = c) - 1

DigitChar(n) == Digits[n + 1]

\* str(i) of a non-negative integer
RECURSIVE Decimal(_)
Decimal(n) == IF n < 10 THEN <<DigitChar(n)>> ELSE Decimal(n \div 10) \o <<DigitChar(n % 10)>>

\* the %02d and %04d conversions of strftime
Pad2(n) == <<DigitChar((n \div 10) % 10), DigitChar(n % 10)>>

Pad4(n) == <<DigitChar((n \div 1000) % 10), DigitChar((n \div 100) % 10)>> \o Pad2(n % 100)

(***************************************************************************)
(* The calendar of datetime: ordinals, as _ymd2ord and _ord2ymd compute    *)
(* them.                                                                   *)
(***************************************************************************)
IsLeap(y) == y % 4 = 0 /\ (y % 100 # 0 \/ y % 400 = 0)

DaysInMonthTable == <<31, 28, 31, 30, 31, 30, 31, 31, 30, 31, 30, 31>>

DaysBeforeMonthTable == <<0, 31, 59, 90, 120, 151, 181, 212, 243, 273, 304, 334>>

DaysInMonth(y, m) == IF m = 2 /\ IsLeap(y) THEN 29 ELSE DaysInMonthTable[m]

DaysBeforeMonth(y, m) == DaysBeforeMonthTable[m] + (IF m > 2 /\ IsLeap(y) THEN 1 ELSE 0)

DaysBeforeYear(y) ==
    LET p == y - 1 IN p * 365 + (p \div 4) - (p \div 100) + (p \div 400)

Ymd2Ord(y, m, d) == DaysBeforeYear(y) + DaysBeforeMonth(y, m) + d

\* _ord2ymd: the 400-, 100-, 4- and 1-year cycles, then the month estimate
Ord2Ymd(ord) ==
    LET n0 == ord - 1
        n400 == n0 \div 146097
        r400 == n0 % 146097
        n100 == r400 \div 36524
        r100 == r400 % 36524
        n4 == r100 \div 1461
        r4 == r100 % 1461
        n1 == r4 \div 365
        n == r4 % 365
        year == n400 * 400 + 1 + n100 * 100 + n4 * 4 + n1
    IN  IF n1 = 4 \/ n100 = 4
        THEN [y |-> year - 1, m |-> 12, d |-> 31]
        ELSE LET leap == n1 = 3 /\ (n4 # 24 \/ n100 = 3)
                 est == (n + 50) \div 32
                 before(mm) == DaysBeforeMonthTable[mm] + (IF mm > 2 /\ leap THEN 1 ELSE 0)
                 month == IF before(est) > n THEN est - 1 ELSE est
             IN  [y |-> year, m |-> month, d |-> n - before(month) + 1]

(***************************************************************************)
(* strptime(text, '%Y-%m-%d') and strftime('%Y-%m-%d')                     *)
(***************************************************************************)
\* %Y is \d\d\d\d
MatchesYear(s) == Len(s) = 4 /\ \A k \in 1..4 : IsDigit(s[k])

\* %m is 1[0-2]|0[1-9]|[1-9]
MatchesMonth(s) ==
    \/ Len(s) = 2 /\ s[1] = "1" /\ s[2] \in {"0", "1", "2"}
    \/ Len(s) = 2 /\ s[1] = "0" /\ IsDigit(s[2]) /\ s[2] # "0"
    \/ Len(s) = 1 /\ IsDigit(s[1]) /\ s[1] # "0"

\* %d is 3[0-1]|[1-2]\d|0[1-9]|[1-9]| [1-9]
MatchesDay(s) ==
    \/ Len(s) = 2 /\ s[1] = "3" /\ s[2] \in {"0", "1"}
    \/ Len(s) = 2 /\ s[1] \in {"1", "2"} /\ IsDigit(s[2])
    \/ Len(s) = 2 /\ s[1] \in {"0", " "} /\ IsDigit(s[2]) /\ s[2] # "0"
    \/ Len(s) = 1 /\ IsDigit(s[1]) /\ s[1] # "0"

\* the value of a run of digits (a leading blank counts for nothing)
RECURSIVE NumVal(_)
NumVal(s) ==
    IF s = <<>> THEN 0
    ELSE NumVal(SubSeq(s, 1, Len(s) - 1)) * 10
         + (IF IsDigit(s[Len(s)]) THEN DigitVal(s[Len(s)]) ELSE 0)

\* where the month ends: the format's second "-" follows a month of one or two characters
MonthLen(s) == IF Len(s) >= 7 /\ s[7] = "-" THEN 1 ELSE 2

YearPart(s) == SubSeq(s, 1, 4)

MonthPart(s) == SubSeq(s, 6, 5 + MonthLen(s))

DayPart(s) == SubSeq(s, 7 + MonthLen(s), Len(s))

\* the text matches the regular expression of the format, all of it consumed
MatchesFormat(s) ==
    /\ Len(s) >= 8
    /\ Len(s) <= 10
    /\ MatchesYear(YearPart(s))
    /\ s[5] = "-"
    /\ MatchesMonth(MonthPart(s))
    /\ s[6 + MonthLen(s)] = "-"
    /\ MatchesDay(DayPart(s))

\* the fields name a date of the calendar (datetime's constructor checks)
IsCalendarDate(s) ==
    /\ MatchesFormat(s)
    /\ NumVal(YearPart(s)) >= 1
    /\ NumVal(DayPart(s)) <= DaysInMonth(NumVal(YearPart(s)), NumVal(MonthPart(s)))

\* the date strptime returns for a text it accepts
ParsedOrdinal(s) == Ymd2Ord(NumVal(YearPart(s)), NumVal(MonthPart(s)), NumVal(DayPart(s)))

\* strptime without the constructor's check of the day against the month
strptimeNoRangeCheck(s) ==
    IF MatchesFormat(s) THEN [ok |-> TRUE, ord |-> ParsedOrdinal(s)]
    ELSE [ok |-> FALSE, ord |-> 0]

\* strptime: the date, or ValueError
strptime(s) ==
    IF IsCalendarDate(s) THEN [ok |-> TRUE, ord |-> ParsedOrdinal(s)]
    ELSE [ok |-> FALSE, ord |-> 0]

\* strftime with month and day not padded ('%Y-%-m-%-d')
strftimeUnpadded(ord) ==
    LET t == Ord2Ymd(ord) IN Pad4(t.y) \o <<"-">> \o Decimal(t.m) \o <<"-">> \o Decimal(t.d)

\* strftime('%Y-%m-%d') of a date of a four-digit year
strftime(ord) ==
    LET t == Ord2Ymd(ord) IN Pad4(t.y) \o <<"-">> \o Pad2(t.m) \o <<"-">> \o Pad2(t.d)

(***************************************************************************)
(* Real arithmetic, in fixed point: a real x is the integer x * Scale.     *)
(* math.sin is computed by reduction to [-pi/2, pi/2] and the Taylor       *)
(* polynomial of degree 9, which is within 1/1000 of the floating-point    *)
(* value; math.cos(x) is sin(x + pi/2).                                    *)
(***************************************************************************)
Scale == 10000

Pi == 31416

HalfPi == 15708

TwoPi == 62832

Mul(a, b) == (a * b) \div Scale

Max(a, b) == IF a >= b THEN a ELSE b

Sin(x) ==
    LET r == x % TwoPi
        y == IF r <= HalfPi THEN r ELSE IF r <= Pi + HalfPi THEN Pi - r ELSE r - TwoPi
        y2 == Mul(y, y)
        t3 == Mul(y, y2) \div 6
        t5 == Mul(t3, y2) \div 20
        t7 == Mul(t5, y2) \div 42
        t9 == Mul(t7, y2) \div 72
    IN  y - t3 + t5 - t7 + t9

Cos(x) == Sin(x + HalfPi)

\* the built-in round of a real to an integer: to nearest, ties to even
Round(v) ==
    LET q == v \div Scale
        r == v % Scale
    IN  IF 2 * r > Scale \/ (2 * r = Scale /\ q % 2 = 1) THEN q + 1 ELSE q

(***************************************************************************)
(* The random module: one generator for the whole process.  Its state is   *)
(* a 16-bit linear congruential generator of full period here; what the    *)
(* functions of the module do with the generator's output is as in the     *)
(* library: random() scales it to [0, 1), _randbelow(n) draws bit_length(n)*)
(* bits until the value is below n, randint(a, b) is a + _randbelow(b-a+1),*)
(* and sample(population, 2) draws an index, then draws again until the    *)
(* second index differs from the first.                                    *)
(***************************************************************************)
Modulus == 65536

Multiplier == 25173

Increment == 13849

StateBits == 16

Advance(g) == (g * Multiplier + Increment) % Modulus

RECURSIVE BitLength(_)
BitLength(n) == IF n = 0 THEN 0 ELSE 1 + BitLength(n \div 2)

\* getrandbits(k): the k high bits of the state
getrandbits(k, g) == g \div 2 ^ (StateBits - k)

\* random.random(): the draw and the generator after it
random(g) ==
    LET g1 == Advance(g) IN [val |-> (g1 * Scale) \div Modulus, rng |-> g1]

RECURSIVE randbelow(_, _)
randbelow(n, g) ==
    LET g1 == Advance(g)
        r == getrandbits(BitLength(n), g1)
    IN  IF r < n THEN [val |-> r, rng |-> g1] ELSE randbelow(n, g1)

randint(a, b, g) ==
    LET d == randbelow(b - a + 1, g) IN [val |-> a + d.val, rng |-> d.rng]

\* the second index of sample(population, 2): drawn until it is not the first
RECURSIVE SampleOther(_, _, _)
SampleOther(n, first, g) ==
    LET d == randbelow(n, g)
    IN  IF d.val = first THEN SampleOther(n, first, d.rng) ELSE d

\* two independent draws (random.choices): the second may repeat the first
sample2WithReplacement(n, g) ==
    LET a == randbelow(n, g)
        b == randbelow(n, a.rng)
    IN  [a |-> a.val, b |-> b.val, rng |-> b.rng]

\* random.sample(population, 2) as the two indices chosen
sample2(n, g) ==
    LET a == randbelow(n, g)
        b == SampleOther(n, a.val, a.rng)
    IN  [a |-> a.val, b |-> b.val, rng |-> b.rng]

(***************************************************************************)
(* The handler get_dashboard, line by line                                 *)
(***************************************************************************)
\* request.args.get(key, default)
ArgsGet(a, key, default) == IF key \in DOMAIN a THEN a[key] ELSE default

\* timedelta(days=30) of the default of `from`
DefaultWindow == 30

DefaultPlatform == "twitter"

\* the default of `from`, for a clock read on day `now`
DefaultFrom(now) == strftime(now - DefaultWindow)

\* the default of `to`, for a clock read on day `now`
DefaultTo(now) == strftime(now)

\* the day count without the + 1
DayCountExclusive(start, end) == end - start

\* the day count of the dates in either order
DayCountAbs(start, end) == (IF end >= start THEN end - start ELSE start - end) + 1

\* days = (end - start).days + 1
DayCount(start, end) == (end - start) + 1

\* d = start + timedelta(days=i)
DayAt(start, i) == start + i

\* the count with noise centred on zero: (random.random() - 0.5) * 60
BaseCountCentred(i, u) ==
    Round(200 * Scale + 40 * Sin((i * Scale) \div 6) + (u - Scale \div 2) * 60)

\* base = round(200 + 40 * math.sin(i / 6) + random.random() * 60)
BaseCount(i, u) == Round(200 * Scale + 40 * Sin((i * Scale) \div 6) + u * 60)

\* anxiety = max(0, (math.sin(i / 7 + 0.5) + random.random() * 0.6) / 2)
Anxiety(i, u) == Max(0, (Sin((i * Scale) \div 7 + Scale \div 2) + (u * 6) \div 10) \div 2)

\* sadness = max(0, (math.cos(i / 8) + random.random() * 0.6) / 2)
Sadness(i, u) == Max(0, (Cos((i * Scale) \div 8) + (u * 6) \div 10) \div 2)

\* joy = max(0, (math.cos(i / 5 + 1) + random.random() * 0.6) / 2)
Joy(i, u) == Max(0, (Cos((i * Scale) \div 5 + Scale) + (u * 6) \div 10) \div 2)

\* one iteration of the loop over range(days): four draws, one point
TimeSeriesPoint(i, start, g) ==
    LET u1 == random(g)
        u2 == random(u1.rng)
        u3 == random(u2.rng)
        u4 == random(u3.rng)
    IN  [point |-> [date |-> strftime(DayAt(start, i)),
                    count |-> BaseCount(i, u1.val),
                    anxiety |-> Anxiety(i, u2.val),
                    sadness |-> Sadness(i, u3.val),
                    joy |-> Joy(i, u4.val)],
         rng |-> u4.rng]

\* the iterations lo .. hi-1 of `for i in range(days)`, in order: each iteration
\* draws from the generator as the one before left it (the range is split in halves
\* only to keep the evaluation shallow; the order of the draws is the loop's)
RECURSIVE TimeSeriesRange(_, _, _, _)
TimeSeriesRange(lo, hi, start, g) ==
    IF hi <= lo THEN [list |-> <<>>, rng |-> g]
    ELSE IF hi = lo + 1
    THEN LET p == TimeSeriesPoint(lo, start, g) IN [list |-> <<p.point>>, rng |-> p.rng]
    ELSE LET mid == (lo + hi) \div 2
             left == TimeSeriesRange(lo, mid, start, g)
             right == TimeSeriesRange(mid, hi, start, left.rng)
         IN  [list |-> left.list \o right.list, rng |-> right.rng]

\* time_series = []; for i in range(days): ... time_series.append(...)
TimeSeriesLoop(days, start, g) == TimeSeriesRange(0, days, start, g)

\* the topics in ascending order of mentions
TopicsAscending ==
    << [topic |-> "financial pressure", changePct |-> 5, mentions |-> 150],
       [topic |-> "sleep issues", changePct |-> 8, mentions |-> 210],
       [topic |-> "job market anxiety", changePct |-> 12, mentions |-> 320],
       [topic |-> "exam stress", changePct |-> 22, mentions |-> 420] >>

\* the fixed list `topics`; changePct in hundredths
Topics ==
    << [topic |-> "exam stress", changePct |-> 22, mentions |-> 420],
       [topic |-> "job market anxiety", changePct |-> 12, mentions |-> 320],
       [topic |-> "sleep issues", changePct |-> 8, mentions |-> 210],
       [topic |-> "financial pressure", changePct |-> 5, mentions |-> 150] >>

\* the fixed list `emotions`; value in hundredths
Emotions ==
    << [name |-> "sadness", value |-> 38],
       [name |-> "anger", value |-> 12],
       [name |-> "fear", value |-> 18],
       [name |-> "joy", value |-> 10],
       [name |-> "neutral", value |-> 22] >>

NumNodes == 40

NumLinks == 80

\* f"user_{i}"
NodeId(i) == <<"u", "s", "e", "r", "_">> \o Decimal(i)

\* one node: randint(1, 10) for the degree, then (random() - 0.5) * 1.6
GraphNode(i, g) ==
    LET deg == randint(1, 10, g)
        u == random(deg.rng)
    IN  [node |-> [id |-> NodeId(i), degree |-> deg.val,
                   sentiment |-> ((u.val - Scale \div 2) * 16) \div 10],
         rng |-> u.rng]

\* the iterations lo .. hi-1 of `for i in range(40)`, in order
RECURSIVE NodesRange(_, _, _)
NodesRange(lo, hi, g) ==
    IF hi <= lo THEN [list |-> <<>>, rng |-> g]
    ELSE IF hi = lo + 1
    THEN LET n == GraphNode(lo, g) IN [list |-> <<n.node>>, rng |-> n.rng]
    ELSE LET mid == (lo + hi) \div 2
             left == NodesRange(lo, mid, g)
             right == NodesRange(mid, hi, left.rng)
         IN  [list |-> left.list \o right.list, rng |-> right.rng]

\* nodes = []; for i in range(40): nodes.append(...)
NodesLoop(g) == NodesRange(0, NumNodes, g)

\* a, b = random.sample(nodes, 2), as positions in nodes (from 1)
SampleNodes(nodes, g) ==
    LET c == sample2(Len(nodes), g) IN [a |-> c.a + 1, b |-> c.b + 1, rng |-> c.rng]

\* one link: the sample, then random() for the value
GraphLink(nodes, g) ==
    LET c == SampleNodes(nodes, g)
        u == random(c.rng)
    IN  [link |-> [source |-> nodes[c.a].id, target |-> nodes[c.b].id, value |-> u.val],
         rng |-> u.rng]

\* the iterations lo .. hi-1 of `for i in range(80)`, in order
RECURSIVE LinksRange(_, _, _, _)
LinksRange(lo, hi, nodes, g) ==
    IF hi <= lo THEN [list |-> <<>>, rng |-> g]
    ELSE IF hi = lo + 1
    THEN LET l == GraphLink(nodes, g) IN [list |-> <<l.link>>, rng |-> l.rng]
    ELSE LET mid == (lo + hi) \div 2
             left == LinksRange(lo, mid, nodes, g)
             right == LinksRange(mid, hi, nodes, left.rng)
         IN  [list |-> left.list \o right.list, rng |-> right.rng]

\* links = []; for i in range(80): links.append(...)
LinksLoop(nodes, g) == LinksRange(0, NumLinks, nodes, g)

(***************************************************************************)
(* State                                                                   *)
(***************************************************************************)
VARIABLES
    clock,      \* the system clock: the ordinal of the current day
    ticks,      \* midnights passed since the start
    rng,        \* the state of the process-wide generator
    pc,         \* per request: where the handler stands
    args,       \* per request: request.args, a function from the keys present
    frame,      \* per request: the handler's local variables
    response,   \* per request: what the server answers
    reads,      \* per request: the days the clock showed when lines 20 and 21 read it
    probe       \* one evaluation of the count formula: offset, draw, result

vars == <<clock, ticks, rng, pc, args, frame, response, reads, probe>>

\* the requests the server may be handling at once (one thread each)
Slots == {1, 2}

\* midnights that may pass while one request is handled
MaxTicks == 2

\* midnights that may pass while two requests are handled
MaxConcTicks == 1

\* days on which the server may be started: the eve of a 29th of February, and a day
\* whose 30-day window begins on one
ClockStarts == {Ymd2Ord(2024, 2, 28), Ymd2Ord(2024, 3, 30)}

\* seeds of the generator
Seeds == {1, 40503}

\* the text YYYY-MM-DD of a year, month and day
T(y, m, d) == Pad4(y) \o <<"-">> \o Pad2(m) \o <<"-">> \o Pad2(d)

\* values of the query parameter `from`
FromInputs ==
    { T(2024, 2, 27), T(2024, 3, 1),
      <<"2", "0", "2", "4", "-", "2", "-", "2", "8">>,
      <<"2", "0", "2", "4", "-", "0", "2", "-", "3", "0">>,
      <<"0", "3", "/", "0", "1", "/", "2", "0", "2", "4">> }

\* values of the query parameter `to`
ToInputs ==
    { T(2024, 2, 27), T(2024, 2, 29), T(2024, 1, 15),
      <<"2", "0", "2", "4", "-", "3", "-", " ", "1">>,
      <<"2", "0", "2", "4", "-", "1", "3", "-", "0", "1">>,
      <<>> }

\* values of the query parameter `platform`
PlatformInputs == {"reddit"}

\* the query of a request: each parameter present (a one-element set) or absent (empty)
QueryArgs(fs, ts, ps) ==
    [k \in {x \in {"from", "to", "platform"} :
                \/ x = "from" /\ fs # {}
                \/ x = "to" /\ ts # {}
                \/ x = "platform" /\ ps # {}} |->
        CASE k = "from" -> CHOOSE v \in fs : TRUE
          [] k = "to" -> CHOOSE v \in ts : TRUE
          [] OTHER -> CHOOSE v \in ps : TRUE]

\* a parameter left out, or given one of the values
Optional(S) == {{}} \cup {{v} : v \in S}

NoArgs == QueryArgs({}, {}, {})

EmptyFrame ==
    [start_date |-> <<>>, end_date |-> <<>>,
     platform |-> "", start |-> 0, end |-> 0, days |-> 0,
     time_series |-> <<>>, nodes |-> <<>>, links |-> <<>>]

NoReads == [from_at |-> 0, to_at |-> 0]

NoResponse == [status |-> 0]

\* no evaluation asked for
NoProbe == [i |-> 0, u |-> 0, count |-> -1]

\* what Flask answers when the view raises
ServerError == [status |-> 500]

HandlerInit ==
    /\ clock \in ClockStarts
    /\ ticks = 0
    /\ rng \in Seeds
    /\ pc = [r \in Slots |-> "idle"]
    /\ args = [r \in Slots |-> NoArgs]
    /\ frame = [r \in Slots |-> EmptyFrame]
    /\ response = [r \in Slots |-> NoResponse]
    /\ reads = [r \in Slots |-> NoReads]

Init == HandlerInit /\ probe = NoProbe

(***************************************************************************)
(* Actions                                                                 *)
(***************************************************************************)
\* variables kept at module level: every call reads those of the first
LocalsOfFirst(r) == frame[1]

\* the local variables of the call that handles request r
Locals(r) == frame[r]

\* midnight passes.  The handler looks at the clock on lines 20 and 21 only, so a
\* midnight is a step of its own only while some request has a read of the clock ahead
ClockReadAhead == \E r \in Slots : pc[r] \in {"resolve_from", "resolve_to"}

Tick(limit) ==
    /\ ticks < limit
    /\ ClockReadAhead
    /\ clock' = clock + 1
    /\ ticks' = ticks + 1
    /\ UNCHANGED <<rng, pc, args, frame, response, reads, probe>>

\* a request arrives, with a query from the given sets
Receive(r, Froms, Tos, Platforms) ==
    /\ pc[r] = "idle"
    /\ \E fs \in Optional(Froms), ts \in Optional(Tos), ps \in Optional(Platforms) :
          args' = [args EXCEPT ![r] = QueryArgs(fs, ts, ps)]
    /\ pc' = [pc EXCEPT ![r] = "resolve_from"]
    /\ UNCHANGED <<clock, ticks, rng, frame, response, reads, probe>>

\* line 20: the default is computed, from the clock, whether `from` is present or not
ResolveFrom(r) ==
    /\ pc[r] = "resolve_from"
    /\ frame' = [frame EXCEPT ![r].start_date = ArgsGet(args[r], "from", DefaultFrom(clock))]
    /\ reads' = [reads EXCEPT ![r].from_at = clock]
    /\ pc' = [pc EXCEPT ![r] = "resolve_to"]
    /\ UNCHANGED <<clock, ticks, rng, args, response, probe>>

\* lines 21-22: the clock is read again for the default of `to`
ResolveTo(r) ==
    /\ pc[r] = "resolve_to"
    /\ frame' = [frame EXCEPT ![r].end_date = ArgsGet(args[r], "to", DefaultTo(clock)),
                              ![r].platform = ArgsGet(args[r], "platform", DefaultPlatform)]
    /\ reads' = [reads EXCEPT ![r].to_at = clock]
    /\ pc' = [pc EXCEPT ![r] = "parse"]
    /\ UNCHANGED <<clock, ticks, rng, args, response, probe>>

\* lines 24-26: a text strptime rejects raises ValueError, which nothing catches: the
\* call is unwound and Flask answers for it
ParseDates(r) ==
    /\ pc[r] = "parse"
    /\ LET s == strptime(Locals(r).start_date)
           e == strptime(Locals(r).end_date)
       IN  IF s.ok /\ e.ok
           THEN /\ frame' = [frame EXCEPT ![r].start = s.ord, ![r].end = e.ord,
                                          ![r].days = DayCount(s.ord, e.ord)]
                /\ pc' = [pc EXCEPT ![r] = "series"]
                /\ UNCHANGED response
           ELSE /\ response' = [response EXCEPT ![r] = ServerError]
                /\ pc' = [pc EXCEPT ![r] = "error"]
                /\ frame' = [frame EXCEPT ![r] = EmptyFrame]
    /\ UNCHANGED <<clock, ticks, rng, args, reads, probe>>

\* lines 29-36
BuildTimeSeries(r) ==
    /\ pc[r] = "series"
    /\ LET t == TimeSeriesLoop(Locals(r).days, Locals(r).start, rng)
       IN  /\ frame' = [frame EXCEPT ![r].time_series = t.list]
           /\ rng' = t.rng
    /\ pc' = [pc EXCEPT ![r] = "nodes"]
    /\ UNCHANGED <<clock, ticks, args, response, reads, probe>>

\* lines 54-57
BuildNodes(r) ==
    /\ pc[r] = "nodes"
    /\ LET n == NodesLoop(rng)
       IN  /\ frame' = [frame EXCEPT ![r].nodes = n.list]
           /\ rng' = n.rng
    /\ pc' = [pc EXCEPT ![r] = "links"]
    /\ UNCHANGED <<clock, ticks, args, response, reads, probe>>

\* lines 58-60
BuildLinks(r) ==
    /\ pc[r] = "links"
    /\ LET l == LinksLoop(Locals(r).nodes, rng)
       IN  /\ frame' = [frame EXCEPT ![r].links = l.list]
           /\ rng' = l.rng
    /\ pc' = [pc EXCEPT ![r] = "return"]
    /\ UNCHANGED <<clock, ticks, args, response, reads, probe>>

\* the payload with meta taken from the parsed dates, formatted again
PayloadNormalised(f) ==
    [timeSeries |-> f.time_series,
     topics |-> Topics,
     emotions |-> Emotions,
     graph |-> [nodes |-> f.nodes, links |-> f.links],
     meta |-> [from |-> strftime(f.start), to |-> strftime(f.end), platform |-> f.platform]]

\* the object handed to jsonify (lines 38-51 and 62-68)
Payload(f) ==
    [timeSeries |-> f.time_series,
     topics |-> Topics,
     emotions |-> Emotions,
     graph |-> [nodes |-> f.nodes, links |-> f.links],
     meta |-> [from |-> f.start_date, to |-> f.end_date, platform |-> f.platform]]

\* lines 62-68: the payload is returned and the call's variables are gone
Return(r) ==
    /\ pc[r] = "return"
    /\ response' = [response EXCEPT ![r] = [status |-> 200, body |-> Payload(Locals(r))]]
    /\ frame' = [frame EXCEPT ![r] = EmptyFrame]
    /\ pc' = [pc EXCEPT ![r] = "done"]
    /\ UNCHANGED <<clock, ticks, rng, args, reads, probe>>

\* the handler's steps after the request has arrived
Handle(r) ==
    \/ ResolveFrom(r)
    \/ ResolveTo(r)
    \/ ParseDates(r)
    \/ BuildTimeSeries(r)
    \/ BuildNodes(r)
    \/ BuildLinks(r)
    \/ Return(r)

\* one request, with any of the queries
Next ==
    \/ Tick(MaxTicks)
    \/ Receive(1, FromInputs, ToInputs, PlatformInputs)
    \/ Handle(1)

Spec == Init /\ [][Next]_vars

\* values of the query parameters when two requests are in flight: `from` and
\* `platform` are left to their defaults; `to` is absent or a date in the first
\* request, absent or not a date in the second
ConcToInputs == <<{T(2024, 2, 29)}, {<<"2", "0", "2", "4", "-", "0", "2", "-", "3", "0">>}>>

InitConc ==
    /\ Init
    /\ clock = Ymd2Ord(2024, 2, 28)
    /\ rng = 1

\* two requests, each on its own thread of the server, interleaved at the clock reads
\* and between the loops that draw from the generator
NextConc ==
    \/ Tick(MaxConcTicks)
    \/ \E r \in Slots : Receive(r, {}, ConcToInputs[r], {})
    \/ \E r \in Slots : Handle(r)

SpecConc == InitConc /\ [][NextConc]_vars

(***************************************************************************)
(* The count formula on its own: every offset up to MaxOffset, the draws   *)
(* of a grid over [0, 1)                                                   *)
(***************************************************************************)
MaxOffset == 400

DrawCells == 32

DrawGrid == {(k * Scale) \div DrawCells : k \in 0..(DrawCells - 1)} \cup {Scale - 1}

CountInit ==
    /\ HandlerInit
    /\ clock = Ymd2Ord(2024, 2, 28)
    /\ rng = 1
    /\ probe \in {[i |-> i, u |-> u, count |-> -1] : i \in 0..MaxOffset, u \in DrawGrid}

ApplyBaseCount ==
    /\ probe.count = -1
    /\ probe' = [probe EXCEPT !.count = BaseCount(probe.i, probe.u)]
    /\ UNCHANGED <<clock, ticks, rng, pc, args, frame, response, reads>>

CountSpec == CountInit /\ [][ApplyBaseCount]_vars

(***************************************************************************)
(* Properties                                                              *)
(***************************************************************************)
Succeeded(r) == pc[r] = "done"

Failed(r) == pc[r] = "error"

Finished(r) == Succeeded(r) \/ Failed(r)

Body(r) == response[r].body

\* the parameters of request r as resolved: the query's value, else the default for
\* the day the clock showed when the handler computed it
RequestFrom(r) ==
    IF "from" \in DOMAIN args[r] THEN args[r]["from"]
    ELSE T(Ord2Ymd(reads[r].from_at - 30).y, Ord2Ymd(reads[r].from_at - 30).m,
           Ord2Ymd(reads[r].from_at - 30).d)

RequestTo(r) ==
    IF "to" \in DOMAIN args[r] THEN args[r]["to"]
    ELSE T(Ord2Ymd(reads[r].to_at).y, Ord2Ymd(reads[r].to_at).m, Ord2Ymd(reads[r].to_at).d)

RequestPlatform(r) ==
    IF "platform" \in DOMAIN args[r] THEN args[r]["platform"] ELSE "twitter"

BothParse(r) == IsCalendarDate(RequestFrom(r)) /\ IsCalendarDate(RequestTo(r))

FromDay(r) == ParsedOrdinal(RequestFrom(r))

ToDay(r) == ParsedOrdinal(RequestTo(r))

\* the k-th point of the series is dated `first` + (k - 1) days
DatesRunFrom(series, first) ==
    \A k \in 1..Len(series) :
        /\ IsCalendarDate(series[k].date)
        /\ ParsedOrdinal(series[k].date) = first + (k - 1)

\* the text is YYYY-MM-DD with every field padded, the year from 1000 on
IsZeroPadded(s) ==
    /\ Len(s) = 10
    /\ \A k \in {1, 2, 3, 4, 6, 7, 9, 10} : IsDigit(s[k])
    /\ s[1] # "0"

NodeIds(b) == {b.graph.nodes[k].id : k \in 1..Len(b.graph.nodes)}

\* 40 nodes, 80 links, every link between two different ids of the node list
GraphWellFormed(b) ==
    /\ Len(b.graph.nodes) = 40
    /\ Len(b.graph.links) = 80
    /\ \A k \in 1..Len(b.graph.links) :
          /\ b.graph.links[k].source \in NodeIds(b)
          /\ b.graph.links[k].target \in NodeIds(b)
          /\ b.graph.links[k].source # b.graph.links[k].target

PayloadKeys == {"timeSeries", "topics", "emotions", "graph", "meta"}

\* C1 as stated: whenever `from` and `to` both parse, the request succeeds with
\* exactly (to - from) + 1 points, the i-th dated from + i days.
C1_LengthIsSpanPlusOne ==
    \A r \in Slots :
        (Finished(r) /\ BothParse(r)) =>
            /\ Succeeded(r)
            /\ Len(Body(r).timeSeries) = (ToDay(r) - FromDay(r)) + 1
            /\ DatesRunFrom(Body(r).timeSeries, FromDay(r))

\* C1 amended: whenever `from` and `to` both parse, the request succeeds with
\* max(0, (to - from) + 1) points, the i-th dated from + i days: the span plus one
\* when `to` is not before `from`, none when it is.
C1_LengthIsSpanPlusOneOrZero ==
    \A r \in Slots :
        (Finished(r) /\ BothParse(r)) =>
            /\ Succeeded(r)
            /\ Len(Body(r).timeSeries) = Max(0, (ToDay(r) - FromDay(r)) + 1)
            /\ DatesRunFrom(Body(r).timeSeries, FromDay(r))

\* a range given in the query, with unpadded fields, that runs over the 29th of February
C1_Witness ==
    \E r \in Slots :
        /\ Succeeded(r)
        /\ {"from", "to"} \subseteq DOMAIN args[r]
        /\ ~IsZeroPadded(args[r]["from"])
        /\ Len(Body(r).timeSeries) = 3
        /\ Body(r).timeSeries[2].date = T(2024, 2, 29)

\* C2: every successful response has exactly 40 nodes and 80 links, and every
\* link's source and target are ids of nodes of that response and differ.
C2_GraphWellFormed ==
    \A r \in Slots : Succeeded(r) => GraphWellFormed(Body(r))

\* a response whose graph repeats an edge (duplicates are not excluded)
C2_Witness ==
    \E r \in Slots :
        /\ Succeeded(r)
        /\ \E j, k \in 1..Len(Body(r).graph.links) :
              /\ j < k
              /\ Body(r).graph.links[j].source = Body(r).graph.links[k].source
              /\ Body(r).graph.links[j].target = Body(r).graph.links[k].target

\* C3: meta.from, meta.to and meta.platform of a successful response are the
\* resolved parameters (the query's value when present, else today minus 30 days,
\* today, the default label), and the series is built from these same dates.
C3_MetaEchoesResolved ==
    \A r \in Slots :
        Succeeded(r) =>
            /\ Body(r).meta.from = RequestFrom(r)
            /\ Body(r).meta.to = RequestTo(r)
            /\ Body(r).meta.platform = RequestPlatform(r)
            /\ DatesRunFrom(Body(r).timeSeries, ParsedOrdinal(Body(r).meta.from))
            /\ \A k \in 1..Len(Body(r).timeSeries) :
                  ParsedOrdinal(Body(r).timeSeries[k].date) <= ParsedOrdinal(Body(r).meta.to)

\* `from` given without padding, `to` defaulted, platform given
C3_Witness ==
    \E r \in Slots :
        /\ Succeeded(r)
        /\ DOMAIN args[r] = {"from", "platform"}
        /\ ~IsZeroPadded(args[r]["from"])
        /\ Len(Body(r).timeSeries) > 0

\* C4 as stated: a request without parameters yields exactly 31 points, the last
\* dated with the current date, and the default platform, whenever the clock is read.
C4_DefaultsGive31Days ==
    \A r \in Slots :
        (Succeeded(r) /\ DOMAIN args[r] = {}) =>
            /\ Len(Body(r).timeSeries) = 31
            /\ Body(r).timeSeries[Len(Body(r).timeSeries)].date = RequestTo(r)
            /\ Body(r).meta.platform = "twitter"

\* C5: a request whose `from` or `to` is not a date of the format ends in an error
\* and no payload; every outcome is the whole payload or an error, nothing between.
C5_AllOrNothing ==
    \A r \in Slots :
        /\ (Finished(r) /\ ~BothParse(r)) => response[r] = [status |-> 500]
        /\ \/ response[r] = [status |-> 0] /\ ~Finished(r)
           \/ response[r] = [status |-> 500] /\ Failed(r)
           \/ /\ Succeeded(r)
              /\ DOMAIN response[r] = {"status", "body"}
              /\ response[r].status = 200
              /\ DOMAIN Body(r) = PayloadKeys

\* a `from` of the right shape that names no day of the calendar (30th of February)
C5_Witness ==
    \E r \in Slots :
        /\ Failed(r)
        /\ "from" \in DOMAIN args[r]
        /\ MatchesFormat(args[r]["from"])
        /\ ~IsCalendarDate(args[r]["from"])
        /\ response[r] = [status |-> 500]

\* C6: for every offset i and draw U, count is a non-negative integer, and at
\* least 160.
C6_CountAtLeast160 ==
    probe.count # -1 => (probe.count \in Nat /\ probe.count >= 160)

\* the bound is met: offset 28, where sin(i/6) is nearest -1, with a draw of 0
C6_Witness == probe.i = 28 /\ probe.u = 0 /\ probe.count = 160

\* C7: topics and emotions of every successful response are the same fixed lists,
\* 4 and 5 entries, in the same order, whatever the parameters and the draws.
C7_StaticLists ==
    \A r \in Slots :
        Succeeded(r) =>
            /\ Body(r).topics =
                 << [topic |-> "exam stress", changePct |-> 22, mentions |-> 420],
                    [topic |-> "job market anxiety", changePct |-> 12, mentions |-> 320],
                    [topic |-> "sleep issues", changePct |-> 8, mentions |-> 210],
                    [topic |-> "financial pressure", changePct |-> 5, mentions |-> 150] >>
            /\ Body(r).emotions =
                 << [name |-> "sadness", value |-> 38],
                    [name |-> "anger", value |-> 12],
                    [name |-> "fear", value |-> 18],
                    [name |-> "joy", value |-> 10],
                    [name |-> "neutral", value |-> 22] >>

\* all three parameters given, and an empty series
C7_Witness ==
    \E r \in Slots :
        /\ Succeeded(r)
        /\ DOMAIN args[r] = {"from", "to", "platform"}
        /\ Body(r).timeSeries = <<>>
        /\ Len(Body(r).topics) = 4
        /\ Len(Body(r).emotions) = 5

\* C8: when `to` is earlier than `from`, both well-formed, the request succeeds with
\* an empty series, and the graph, topics, emotions and meta are still produced.
C8_ReversedRangeIsEmpty ==
    \A r \in Slots :
        (Finished(r) /\ BothParse(r) /\ ToDay(r) < FromDay(r)) =>
            /\ Succeeded(r)
            /\ Body(r).timeSeries = <<>>
            /\ GraphWellFormed(Body(r))
            /\ Len(Body(r).topics) = 4
            /\ Len(Body(r).emotions) = 5
            /\ Body(r).meta = [from |-> RequestFrom(r), to |-> RequestTo(r),
                               platform |-> RequestPlatform(r)]

\* only `to` given, earlier than today minus 30 days
C8_Witness ==
    \E r \in Slots :
        /\ Succeeded(r)
        /\ DOMAIN args[r] = {"to"}
        /\ ToDay(r) < FromDay(r) - 1
        /\ Body(r).timeSeries = <<>>

\* what the parameters and clock reads of request r alone determine of its outcome
DeterminedByOwnRequest(r) ==
    IF BothParse(r)
    THEN /\ Succeeded(r)
         /\ Body(r).meta = [from |-> RequestFrom(r), to |-> RequestTo(r),
                            platform |-> RequestPlatform(r)]
         /\ Len(Body(r).timeSeries) = Max(0, (ToDay(r) - FromDay(r)) + 1)
         /\ DatesRunFrom(Body(r).timeSeries, FromDay(r))
         /\ GraphWellFormed(Body(r))
         /\ \A k \in 1..Len(Body(r).graph.nodes) :
               Body(r).graph.nodes[k].id = <<"u", "s", "e", "r", "_">> \o Decimal(k - 1)
    ELSE /\ Failed(r)
         /\ response[r] = [status |-> 500]

\* C9: under every interleaving of two requests, the series length and dates, the
\* node and link counts, the link endpoints and meta of each response are those
\* its own parameters and clock reads determine.
C9_RequestsIndependent ==
    \A r \in Slots : Finished(r) => DeterminedByOwnRequest(r)

\* both requests answered, with different series, the first having drawn its
\* series from the seed and its nodes only after the other request had drawn
C9_Witness ==
    /\ Succeeded(1)
    /\ Succeeded(2)
    /\ Len(Body(1).timeSeries) # Len(Body(2).timeSeries)
    /\ Len(Body(1).timeSeries) > 0
    /\ LET t == TimeSeriesLoop(Len(Body(1).timeSeries), FromDay(1), 1)
       IN  /\ Body(1).timeSeries = t.list
           /\ Body(1).graph.nodes # NodesLoop(t.rng).list

\* C10 as stated: in a response with a non-empty series the first point's date is
\* meta.from and the last point's date is meta.to, for every text the parser accepts.
C10_EndsEqualMeta ==
    \A r \in Slots :
        (Succeeded(r) /\ Len(Body(r).timeSeries) > 0) =>
            /\ Body(r).timeSeries[1].date = Body(r).meta.from
            /\ Body(r).timeSeries[Len(Body(r).timeSeries)].date = Body(r).meta.to

\* C10 amended: in a response with a non-empty series the first and last points are
\* dated with the days meta.from and meta.to name, and their date texts equal
\* meta.from, meta.to when those are in padded form YYYY-MM-DD (year from 1000 on).
C10_EndsEqualMetaWhenPadded ==
    \A r \in Slots :
        (Succeeded(r) /\ Len(Body(r).timeSeries) > 0) =>
            LET b == Body(r)
                n == Len(b.timeSeries)
            IN  /\ ParsedOrdinal(b.timeSeries[1].date) = ParsedOrdinal(b.meta.from)
                /\ ParsedOrdinal(b.timeSeries[n].date) = ParsedOrdinal(b.meta.to)
                /\ IsZeroPadded(b.timeSeries[1].date)
                /\ IsZeroPadded(b.timeSeries[n].date)
                /\ IsZeroPadded(b.meta.from) => b.timeSeries[1].date = b.meta.from
                /\ IsZeroPadded(b.meta.to) => b.timeSeries[n].date = b.meta.to

\* both ends given in padded form, a series of several days
C10_Witness ==
    \E r \in Slots :
        /\ Succeeded(r)
        /\ {"from", "to"} \subseteq DOMAIN args[r]
        /\ IsZeroPadded(args[r]["from"])
        /\ IsZeroPadded(args[r]["to"])
        /\ Len(Body(r).timeSeries) = 3

====
